---- MODULE Spec2Model ----
(***************************************************************************)
(* zenith's entry point (src/main.rs): argument validation and conversion  *)
(* in main, and the start-up / shutdown protocol of start_zenith around    *)
(* the lock marker <db_path>/.zenith.lock, for several zenith processes    *)
(* sharing one storage directory.                                          *)
(***************************************************************************)
EXTENDS Integers, Sequences, FiniteSets, TLC

\* Number of zenith processes started on the same storage path.
NumInstances == 3

Instances == 1..NumInstances

VARIABLES
    pc,               \* position of each process in main/start_zenith
    disable_history,  \* the disable_history argument of each process
    db,               \* the db value built at lines 112-134 ("unset" before)
    lock_exists,      \* filesystem: lock_path.exists()
    dir_exists,       \* filesystem: Path::new(db_path).exists()
    terminal,         \* init_terminal / restore_terminal calls of each process
    ops,              \* writes each process has made under the storage path
    sawLock,          \* what lock_path.exists() returned at line 112
    released,         \* the marker a process created has since been removed
    stale,            \* some process panicked and left its marker behind
    mpc,              \* position of main's argument handling
    kind,             \* which argument is being handled
    arg,              \* the argument string, as a sequence of characters
    passed,           \* the value main hands to start_zenith
    height            \* the i16 start_zenith hands to TerminalRenderer::new

procVars == <<pc, disable_history, db, lock_exists, dir_exists, terminal, ops,
              sawLock, released, stale>>
mainVars == <<mpc, kind, arg, passed, height>>
vars == <<pc, disable_history, db, lock_exists, dir_exists, terminal, ops,
          sawLock, released, stale, mpc, kind, arg, passed, height>>

\* Ways a process ends: exit(1) at line 116, an unwinding panic, the Err
\* return of a `?`, the Ok return at line 164.
Terminated == {"exit1", "panicked", "ret_err", "ret_ok"}

\* The process holds a persistence store: it passed File::create and has not
\* yet reached the shutdown code at line 157.
Writer(i) == /\ db[i] = "Some"
             /\ pc[i] \in {"init_terminal", "render"}

ProcInit ==
    /\ pc = [i \in Instances |-> "idle"]
    /\ disable_history = [i \in Instances |-> FALSE]
    /\ db = [i \in Instances |-> "unset"]
    /\ lock_exists = FALSE
    /\ terminal = [i \in Instances |-> "untouched"]
    /\ ops = [i \in Instances |-> {}]
    /\ sawLock = [i \in Instances |-> FALSE]
    /\ released = [i \in Instances |-> FALSE]
    /\ stale = FALSE

MainOff ==
    /\ mpc = "off"
    /\ kind = "none"
    /\ arg = <<>>
    /\ passed = [ok |-> TRUE, neg |-> FALSE, mag |-> <<>>]
    /\ height = 0

\* No process started yet; the storage directory may or may not exist.
Init ==
    /\ ProcInit
    /\ dir_exists \in BOOLEAN
    /\ MainOff

\* A panic unwinds out of start_zenith; nothing in it removes the marker.
Panic(i) ==
    /\ pc' = [pc EXCEPT ![i] = "panicked"]
    /\ stale' = (stale \/ ("create_lock" \in ops[i] /\ lock_exists))

\* LockBranch with the test of disable_history at line 114 left out: a marker
\* found at start-up is always fatal.
LockBranchAlwaysFatal(dh, exists) ==
    IF exists
      THEN [pc |-> "exit1", db |-> "unset"]
      ELSE IF ~dh THEN [pc |-> "check_dir", db |-> "unset"]
                  ELSE [pc |-> "init_terminal", db |-> "None"]

\* What the branches of lines 112-121 and 131-133 yield, given the
\* disable_history argument and the result of lock_path.exists(): the next
\* position and the db built so far.
LockBranch(dh, exists) ==
    IF exists
      THEN IF ~dh THEN [pc |-> "exit1", db |-> "unset"]
                  ELSE [pc |-> "init_terminal", db |-> "None"]
      ELSE IF ~dh THEN [pc |-> "check_dir", db |-> "unset"]
                  ELSE [pc |-> "init_terminal", db |-> "None"]

\* main calls start_zenith (lines 286-315), which evaluates
\* lock_path.exists() and branches on it (lines 112-121, 131-133).
\* Processes are numbered in the order they are launched.
CheckLock(i) ==
    /\ pc[i] = "idle"
    /\ \A j \in Instances : j < i => pc[j] # "idle"
    /\ \E dh \in BOOLEAN :
          /\ disable_history' = [disable_history EXCEPT ![i] = dh]
          /\ pc' = [pc EXCEPT ![i] = LockBranch(dh, lock_exists).pc]
          /\ db' = [db EXCEPT ![i] = LockBranch(dh, lock_exists).db]
    /\ sawLock' = [sawLock EXCEPT ![i] = lock_exists]
    /\ UNCHANGED <<lock_exists, dir_exists, terminal, ops, released, stale>>

\* lines 123-124: p.exists().
CheckDir(i) ==
    /\ pc[i] = "check_dir"
    /\ pc' = [pc EXCEPT ![i] = IF dir_exists THEN "create_lock" ELSE "create_dir"]
    /\ UNCHANGED <<disable_history, db, lock_exists, dir_exists, terminal, ops,
                   sawLock, released, stale>>

\* line 126: fs::create_dir(p).expect(..): fails when the directory exists by
\* now, or on an I/O error.
CreateDir(i) ==
    /\ pc[i] = "create_dir"
    /\ \/ /\ ~dir_exists
          /\ dir_exists' = TRUE
          /\ ops' = [ops EXCEPT ![i] = @ \cup {"create_dir"}]
          /\ pc' = [pc EXCEPT ![i] = "create_lock"]
          /\ stale' = stale
       \/ /\ Panic(i)
          /\ UNCHANGED <<dir_exists, ops>>
    /\ UNCHANGED <<disable_history, db, lock_exists, terminal, sawLock, released>>

\* lines 129-130: File::create(&lock_path)? creates or truncates the marker.
CreateLock(i) ==
    /\ pc[i] = "create_lock"
    /\ \/ /\ dir_exists
          /\ lock_exists' = TRUE
          /\ ops' = [ops EXCEPT ![i] = @ \cup {"create_lock"}]
          /\ db' = [db EXCEPT ![i] = "Some"]
          /\ pc' = [pc EXCEPT ![i] = "init_terminal"]
       \/ /\ pc' = [pc EXCEPT ![i] = "ret_err"]
          /\ UNCHANGED <<lock_exists, ops, db>>
    /\ UNCHANGED <<disable_history, dir_exists, terminal, sawLock, released, stale>>

\* line 136 and lines 61-73: init_terminal; each expect in it may panic.
\* Lines 139-154 follow: the renderer is built with db and started.
InitTerminal(i) ==
    /\ pc[i] = "init_terminal"
    /\ \/ /\ terminal' = [terminal EXCEPT ![i] = "initialized"]
          /\ pc' = [pc EXCEPT ![i] = "render"]
          /\ stale' = stale
       \/ /\ Panic(i)
          /\ terminal' = terminal
    /\ UNCHANGED <<disable_history, db, lock_exists, dir_exists, ops, sawLock,
                   released>>

\* ShouldRemoveLock with the test of disable_history left out.
ShouldRemoveLockAnyMode(i) == lock_exists

\* line 157: !disable_history && lock_path.exists().
ShouldRemoveLock(i) == ~disable_history[i] /\ lock_exists

\* line 154: block_on(r.start()) returns on quit and line 157 is evaluated,
\* or the renderer panics.
Render(i) ==
    /\ pc[i] = "render"
    /\ \/ /\ pc' = [pc EXCEPT ![i] = IF ShouldRemoveLock(i)
                                       THEN "remove_file" ELSE "restore_terminal"]
          /\ stale' = stale
       \/ Panic(i)
    /\ UNCHANGED <<disable_history, db, lock_exists, dir_exists, terminal, ops,
                   sawLock, released>>

\* line 159: remove_file(lock_path)? fails when the marker is gone by now, or
\* on an I/O error; the `?` then returns Err from start_zenith.
RemoveFile(i) ==
    /\ pc[i] = "remove_file"
    /\ \/ /\ lock_exists
          /\ lock_exists' = FALSE
          /\ ops' = [ops EXCEPT ![i] = @ \cup {"remove_lock"}]
          /\ released' = [j \in Instances |->
                            released[j] \/ "create_lock" \in ops[j]]
          /\ pc' = [pc EXCEPT ![i] = "restore_terminal"]
       \/ /\ pc' = [pc EXCEPT ![i] = "ret_err"]
          /\ UNCHANGED <<lock_exists, ops, released>>
    /\ UNCHANGED <<disable_history, db, dir_exists, terminal, sawLock, stale>>

\* lines 162-164 and 75-87: restore_terminal, then Ok.
RestoreTerminal(i) ==
    /\ pc[i] = "restore_terminal"
    /\ \/ /\ terminal' = [terminal EXCEPT ![i] = "restored"]
          /\ pc' = [pc EXCEPT ![i] = "ret_ok"]
          /\ stale' = stale
       \/ /\ Panic(i)
          /\ terminal' = terminal
    /\ UNCHANGED <<disable_history, db, lock_exists, dir_exists, ops, sawLock,
                   released>>

(***************************************************************************)
(* main: the validators clap runs on an argument, and the conversions of   *)
(* lines 286-311 and 144-150.  An argument is a sequence of characters; a  *)
(* parsed integer is a sign and a magnitude in decimal digits without      *)
(* leading zeros, so that 64-bit values keep their full range.             *)
(***************************************************************************)

\* Longest argument string enumerated over Alphabet.
MaxLen == 5

Alphabet == {"-", "+", "0", "1", "4", "9", "a"}

DigitChars == {"0", "1", "2", "3", "4", "5", "6", "7", "8", "9"}

DigitVal(c) ==
    CASE c = "0" -> 0 [] c = "1" -> 1 [] c = "2" -> 2 [] c = "3" -> 3
      [] c = "4" -> 4 [] c = "5" -> 5 [] c = "6" -> 6 [] c = "7" -> 7
      [] c = "8" -> 8 [] c = "9" -> 9

\* u64::MAX, i64::MAX, -i64::MIN, u16::MAX, digit by digit.
U64Max == <<1,8,4,4,6,7,4,4,0,7,3,7,0,9,5,5,1,6,1,5>>
I64Max == <<9,2,2,3,3,7,2,0,3,6,8,5,4,7,7,5,8,0,7>>
I64MinMag == <<9,2,2,3,3,7,2,0,3,6,8,5,4,7,7,5,8,0,8>>
U16Max == <<6,5,5,3,5>>

\* Arguments at the edges of the 64-bit ranges, beyond MaxLen:
\* "18446744073709551615", "18446744073709551616", "9223372036854775808",
\* "-9223372036854775809".
LongArgs ==
    { <<"1","8","4","4","6","7","4","4","0","7","3","7","0","9","5","5","1","6","1","5">>,
      <<"1","8","4","4","6","7","4","4","0","7","3","7","0","9","5","5","1","6","1","6">>,
      <<"9","2","2","3","3","7","2","0","3","6","8","5","4","7","7","5","8","0","8">>,
      <<"-","9","2","2","3","3","7","2","0","3","6","8","5","4","7","7","5","8","0","9">> }

Args == UNION {[1..n -> Alphabet] : n \in 0..MaxLen} \cup LongArgs

RECURSIVE StripZeros(_)
StripZeros(d) ==
    IF d = <<>> THEN <<>>
    ELSE IF d[1] = 0 THEN StripZeros(Tail(d)) ELSE d

\* a < b for magnitudes without leading zeros.
MagLT(a, b) ==
    \/ Len(a) < Len(b)
    \/ /\ Len(a) = Len(b)
       /\ \E k \in 1..Len(a) : /\ a[k] < b[k]
                               /\ \A j \in 1..(k - 1) : a[j] = b[j]

ParseErr == [ok |-> FALSE, neg |-> FALSE, mag |-> <<>>]
Zero == [ok |-> TRUE, neg |-> FALSE, mag |-> <<>>]

\* str::parse for an integer type (core's from_str_radix, radix 10): an
\* optional sign ('-' only for a signed type), then one or more digits,
\* accumulated with overflow checks against the type's range.
FromStr(s, is_signed, maxPos, maxNegMag) ==
    IF s = <<>> THEN ParseErr
    ELSE LET negative == is_signed /\ s[1] = "-"
             digits == IF s[1] = "+" \/ negative THEN Tail(s) ELSE s
         IN  IF digits = <<>> \/ \E k \in 1..Len(digits) : digits[k] \notin DigitChars
               THEN ParseErr
               ELSE LET mag == StripZeros([k \in 1..Len(digits) |-> DigitVal(digits[k])])
                    IN  IF MagLT(IF negative THEN maxNegMag ELSE maxPos, mag)
                          THEN ParseErr
                          ELSE [ok |-> TRUE, neg |-> negative /\ mag # <<>>, mag |-> mag]

parse_u64(s) == FromStr(s, FALSE, U64Max, <<>>)
parse_i64(s) == FromStr(s, TRUE, I64Max, I64MinMag)
parse_u16(s) == FromStr(s, FALSE, U16Max, <<>>)

\* Result::unwrap_or(0).
unwrap_or_0(r) == IF r.ok THEN r ELSE Zero

\* a < b for parsed integers.
NumLT(a, b) ==
    CASE a.neg /\ ~b.neg -> TRUE
      [] ~a.neg /\ b.neg -> FALSE
      [] ~a.neg /\ ~b.neg -> MagLT(a.mag, b.mag)
      [] a.neg /\ b.neg -> MagLT(b.mag, a.mag)

\* The literal 1000 of line 169.
MinRefreshRate == [ok |-> TRUE, neg |-> FALSE, mag |-> <<1,0,0,0>>]

\* validate_refresh_rate with `val > 1000` for `val >= 1000`.
validate_refresh_rate_strict(a) ==
    LET val == unwrap_or_0(parse_u64(a))
    IN  NumLT(MinRefreshRate, val)

\* lines 167-177: TRUE for Ok(()), FALSE for Err.
validate_refresh_rate(a) ==
    LET val == unwrap_or_0(parse_u64(a))
    IN  ~NumLT(val, MinRefreshRate)

\* lines 179-189: TRUE for Ok(()), FALSE for Err.
validate_height(a) ==
    LET val == unwrap_or_0(parse_i64(a))
    IN  ~NumLT(val, Zero)

RECURSIVE ToInt(_)
ToInt(mag) ==
    IF mag = <<>> THEN 0
    ELSE 10 * ToInt(SubSeq(mag, 1, Len(mag) - 1)) + mag[Len(mag)]

\* `h as i16` for a u16 h (lines 146-150): the low 16 bits, reread as signed.
as_i16(h) == IF h >= 32768 THEN h - 65536 ELSE h

ProcOff ==
    /\ ProcInit
    /\ dir_exists = FALSE

InitMain ==
    /\ ProcOff
    /\ mpc = "args"
    /\ kind \in {"refresh-rate", "height"}
    /\ arg \in Args
    /\ passed = Zero
    /\ height = 0

\* get_matches (line 281) runs the argument's validator (lines 213, 223, 233,
\* 243, 263); on Err clap reports the error and exits.
Validate ==
    /\ mpc = "args"
    /\ mpc' = IF (IF kind = "refresh-rate" THEN validate_refresh_rate(arg)
                                            ELSE validate_height(arg))
                THEN "validated" ELSE "rejected"
    /\ UNCHANGED <<kind, arg, passed, height>>

\* lines 287-311: .parse::<u64>().unwrap() for the rate, .parse::<u16>()
\* .unwrap() for a height; unwrap panics on Err.
Convert ==
    /\ mpc = "validated"
    /\ LET r == IF kind = "refresh-rate" THEN parse_u64(arg) ELSE parse_u16(arg)
       IN  IF r.ok
             THEN /\ passed' = r
                  /\ mpc' = "start_zenith"
             ELSE /\ passed' = passed
                  /\ mpc' = "panicked"
    /\ UNCHANGED <<kind, arg, height>>

\* lines 144-152: TerminalRenderer::new(rate, cpu_height as i16, ..).
NewRenderer ==
    /\ mpc = "start_zenith"
    /\ height' = IF kind = "height" THEN as_i16(ToInt(passed.mag)) ELSE height
    /\ mpc' = "renderer"
    /\ UNCHANGED <<kind, arg, passed>>

NextMain ==
    \/ Validate /\ UNCHANGED procVars
    \/ Convert /\ UNCHANGED procVars
    \/ NewRenderer /\ UNCHANGED procVars

SpecMain == InitMain /\ [][NextMain]_vars

Next ==
    \/ \E i \in Instances : CheckLock(i) /\ UNCHANGED mainVars
    \/ \E i \in Instances : CheckDir(i) /\ UNCHANGED mainVars
    \/ \E i \in Instances : CreateDir(i) /\ UNCHANGED mainVars
    \/ \E i \in Instances : CreateLock(i) /\ UNCHANGED mainVars
    \/ \E i \in Instances : InitTerminal(i) /\ UNCHANGED mainVars
    \/ \E i \in Instances : Render(i) /\ UNCHANGED mainVars
    \/ \E i \in Instances : RemoveFile(i) /\ UNCHANGED mainVars
    \/ \E i \in Instances : RestoreTerminal(i) /\ UNCHANGED mainVars

Spec == Init /\ [][Next]_vars

(***************************************************************************)
(* The claims.                                                             *)
(***************************************************************************)

\* Every other history-enabled process that was started has returned Ok (or
\* was refused), and at least one has run to completion after creating the
\* marker.
CleanlyShutDown(i) ==
    /\ \A k \in Instances \ {i} :
          (pc[k] # "idle" /\ ~disable_history[k]) => pc[k] \in {"ret_ok", "exit1"}
    /\ \E k \in Instances \ {i} : pc[k] = "ret_ok" /\ "create_lock" \in ops[k]

\* Process i has just evaluated line 112 with history enabled.
HistoryStart(i) == pc[i] = "idle" /\ pc'[i] # "idle" /\ ~disable_history'[i]

\* C1: at no time do two processes run the renderer with a persistence
\* store on the same storage path.
C1_SingleWriter ==
    Cardinality({i \in Instances : pc[i] = "render" /\ db[i] = "Some"}) <= 1

\* C2: a history-enabled start made while another process holds the store
\* ends in exit(1); one made after the earlier processes shut down cleanly
\* goes on to create the marker.
C2_SecondStartRefused ==
    [][\A i \in Instances :
          HistoryStart(i) =>
              /\ (\E j \in Instances \ {i} : Writer(j)) => pc'[i] = "exit1"
              /\ CleanlyShutDown(i) => pc'[i] = "check_dir"]_vars

\* C3: a process that created the marker and has ended, by whatever path,
\* has had the marker removed.
C3_LockReleasedOnEveryPath ==
    \A i \in Instances :
        ("create_lock" \in ops[i] /\ pc[i] \in Terminated) => released[i]

\* C4: a marker found at start-up is fatal exactly when history is enabled;
\* with history disabled the process goes on to init_terminal and the
\* renderer with db = None.
C4_LockHeldFatalOnlyWithHistory ==
    \A i \in Instances :
        /\ (sawLock[i] /\ disable_history[i]) =>
              /\ pc[i] \in {"init_terminal", "render", "restore_terminal",
                            "ret_ok", "panicked"}
              /\ db[i] = "None"
        /\ (sawLock[i] /\ ~disable_history[i]) =>
              /\ pc[i] = "exit1"
              /\ db[i] = "unset"
              /\ terminal[i] = "untouched"
        /\ pc[i] = "exit1" => (sawLock[i] /\ ~disable_history[i])

\* C4 witness: a history-disabled process found the marker and is running
\* its renderer with no store while the marker is still there.
C4_Witness ==
    \E i \in Instances :
        /\ sawLock[i] /\ disable_history[i]
        /\ pc[i] = "render" /\ db[i] = "None"
        /\ lock_exists

\* C5: once a panicked process has left its marker behind, every later
\* history-enabled start ends in exit(1) and changes nothing on disk.
C5_StaleLockRefuses ==
    [][\A i \in Instances :
          (HistoryStart(i) /\ stale) =>
              /\ pc'[i] = "exit1"
              /\ lock_exists' = lock_exists
              /\ dir_exists' = dir_exists
              /\ ops'[i] = {}]_vars

\* C6: a process started with history disabled never creates the storage
\* directory or the marker, never removes the marker, and never reaches the
\* code that does.
C6_NoHistoryNoWrites ==
    \A i \in Instances :
        disable_history[i] =>
            /\ ops[i] = {}
            /\ pc[i] \notin {"check_dir", "create_dir", "create_lock", "remove_file"}

\* C6 witness: a history-disabled process has run to its Ok return while
\* another process holds the marker, which is still there.
C6_Witness ==
    \E i, j \in Instances :
        /\ disable_history[i] /\ pc[i] = "ret_ok" /\ sawLock[i]
        /\ Writer(j) /\ lock_exists

\* C7: a height that validate_height accepts is converted without a panic,
\* and the row count given to TerminalRenderer::new is non-negative and is
\* the number the user wrote.
C7_AcceptedHeightConverts ==
    (kind = "height" /\ mpc \notin {"args", "rejected"}) =>
        /\ mpc # "panicked"
        /\ parse_i64(arg).ok
        /\ mpc = "renderer" =>
              /\ height >= 0
              /\ [ok |-> TRUE, neg |-> FALSE, mag |-> passed.mag] = parse_i64(arg)
              /\ height = ToInt(passed.mag)

\* The argument is an unsigned decimal literal (an optional '+', then
\* digits) whose value lies in 1000 .. 2^64 - 1.
IsU64AtLeast1000(s) ==
    LET body == IF s # <<>> /\ s[1] = "+" THEN Tail(s) ELSE s
        lead == IF \E k \in 1..Len(body) : body[k] # "0"
                  THEN CHOOSE k \in 1..Len(body) :
                          body[k] # "0" /\ \A j \in 1..(k - 1) : body[j] = "0"
                  ELSE Len(body) + 1
        sig == SubSeq(body, lead, Len(body))
    IN  /\ body # <<>>
        /\ \A k \in 1..Len(body) : body[k] \in DigitChars
        /\ Len(sig) >= 4
        /\ Len(sig) <= 20
        /\ Len(sig) = 20 =>
              ~\E k \in 1..20 : /\ DigitVal(sig[k]) > U64Max[k]
                                /\ \A j \in 1..(k - 1) : DigitVal(sig[j]) = U64Max[j]

\* C8: validate_refresh_rate accepts an argument exactly when it is an
\* unsigned 64-bit literal of value at least 1000, and the rate main then
\* hands to start_zenith is parsed without a panic and is at least 1000.
C8_RefreshRateMinimum ==
    (kind = "refresh-rate" /\ mpc # "args") =>
        /\ (mpc # "rejected") <=> IsU64AtLeast1000(arg)
        /\ mpc # "panicked"
        /\ mpc \in {"start_zenith", "renderer"} =>
              /\ ~passed.neg
              /\ Len(passed.mag) >= 4

\* C8 witness: the boundary value "1000" has been accepted and handed on.
C8_Witness ==
    /\ kind = "refresh-rate"
    /\ mpc = "renderer"
    /\ arg = <<"1", "0", "0", "0">>
    /\ passed.mag = <<1, 0, 0, 0>>

\* C9: while some process holds a persistence store, the marker exists.
C9_LockPresentWhileWriter ==
    (\E i \in Instances : Writer(i)) => lock_exists

\* C10: a process that ran init_terminal and has returned from start_zenith,
\* with Ok or with Err, has run restore_terminal.
C10_TerminalRestoredOnReturn ==
    \A i \in Instances :
        (pc[i] \in {"ret_ok", "ret_err"} /\ terminal[i] # "untouched")
            => terminal[i] = "restored"

====
